---- MODULE Spec2Model ----
(***************************************************************************)
(* A model of sbsed.py, the Simple Bytes Editor.                           *)
(*                                                                         *)
(* A Python str is modelled as a sequence of one-character strings, a      *)
(* bytearray as a sequence of integers 0..255.  A value that Python keeps  *)
(* in a dynamically typed attribute (target_offset, length, from_offset)   *)
(* is a record [t, v]: t = "int" with the integer v, t = "None", or        *)
(* t = "str" for the string '+' that SafeEval hands back unevaluated.      *)
(* A function that can raise returns [ok, val, err]; err is the name of    *)
(* the Python exception.                                                   *)
(***************************************************************************)
EXTENDS Integers, Sequences, FiniteSets, TLC

\* ------------------------------------------------------------------------
\* Bounds of the model
\* ------------------------------------------------------------------------

\* the longest batch of --edit arguments
MaxBatch == 3

\* the longest input file, in bytes
MaxFileLen == 4

\* ------------------------------------------------------------------------
\* Python values
\* ------------------------------------------------------------------------

None == [t |-> "None", v |-> 0]

Plus == [t |-> "str", v |-> 0]

IntV(n) == [t |-> "int", v |-> n]

IsInt(x) == x.t = "int"

Ok(val) == [ok |-> TRUE, val |-> val, err |-> ""]

Raise(err) == [ok |-> FALSE, val |-> <<>>, err |-> err]

Min(a, b) == IF a < b THEN a ELSE b

Max(a, b) == IF a > b THEN a ELSE b

\* ------------------------------------------------------------------------
\* str and bytearray primitives of the Python runtime
\* ------------------------------------------------------------------------

HexDigits == <<"0", "1", "2", "3", "4", "5", "6", "7", "8", "9", "a", "b", "c", "d", "e", "f">>

UpperCase == <<"A", "B", "C", "D", "E", "F", "G", "H", "I", "J", "K", "L", "M", "N", "O", "P", "Q", "R", "S", "T", "U", "V", "W", "X", "Y", "Z">>

LowerCase == <<"a", "b", "c", "d", "e", "f", "g", "h", "i", "j", "k", "l", "m", "n", "o", "p", "q", "r", "s", "t", "u", "v", "w", "x", "y", "z">>

Punctuation == << <<"\"", 34>>, <<"+", 43>>, <<"-", 45>>, <<".", 46>>, <<":", 58>>, <<"=", 61>>, <<"_", 95>> >>

IndexOf(c, table) == CHOOSE i \in 1..Len(table) : table[i] = c

In(c, table) == \E i \in 1..Len(table) : table[i] = c

IsDigit(c) == \E i \in 1..10 : HexDigits[i] = c

IsHexDigit(c) == In(c, HexDigits) \/ (\E i \in 1..6 : UpperCase[i] = c)

\* the value of one hexadecimal digit
HexVal(c) == IF In(c, HexDigits) THEN IndexOf(c, HexDigits) - 1 ELSE IndexOf(c, UpperCase) + 9

\* ord(c): the UTF-8 encoding of the ASCII characters the model uses
Ord(c) ==
    IF IsDigit(c) THEN 47 + IndexOf(c, HexDigits)
    ELSE IF In(c, UpperCase) THEN 64 + IndexOf(c, UpperCase)
    ELSE IF In(c, LowerCase) THEN 96 + IndexOf(c, LowerCase)
    ELSE (CHOOSE p \in {Punctuation[i] : i \in 1..Len(Punctuation)} : p[1] = c)[2]

\* bytearray(s, encoding='utf-8')
Encode(s) == [i \in 1..Len(s) |-> Ord(s[i])]

\* str.lower()
Lower(s) == [i \in 1..Len(s) |-> IF In(s[i], UpperCase) THEN LowerCase[IndexOf(s[i], UpperCase)] ELSE s[i]]

\* str.startswith(p)
StartsWith(s, p) == Len(s) >= Len(p) /\ SubSeq(s, 1, Len(p)) = p

\* str.endswith(p)
EndsWith(s, p) == Len(s) >= Len(p) /\ SubSeq(s, Len(s) - Len(p) + 1, Len(s)) = p

\* c * n for a one-character string c
Repeat(c, n) == [i \in 1..n |-> c]

\* bytearray(n): n zero bytes
Zeros(n) == [i \in 1..n |-> 0]

\* reversed(list)
Reverse(s) == [i \in 1..Len(s) |-> s[Len(s) + 1 - i]]

RECURSIVE Join(_)
\* ''.join(list of str)
Join(ss) == IF ss = <<>> THEN <<>> ELSE Head(ss) \o Join(Tail(ss))

RECURSIVE Split(_, _)
\* str.split(sep) for a one-character separator
Split(s, sep) ==
    IF \A i \in 1..Len(s) : s[i] /= sep THEN <<s>>
    ELSE LET k == CHOOSE i \in 1..Len(s) : s[i] = sep /\ \A j \in 1..(i - 1) : s[j] /= sep
         IN  <<SubSeq(s, 1, k - 1)>> \o Split(SubSeq(s, k + 1, Len(s)), sep)

RECURSIVE DecVal(_)
\* the value of a string of decimal digits
DecVal(s) == IF s = <<>> THEN 0 ELSE 10 * DecVal(SubSeq(s, 1, Len(s) - 1)) + HexVal(s[Len(s)])

RECURSIVE HexNum(_)
\* the value of a string of hexadecimal digits
HexNum(s) == IF s = <<>> THEN 0 ELSE 16 * HexNum(SubSeq(s, 1, Len(s) - 1)) + HexVal(s[Len(s)])

IsDecimal(s) == s /= <<>> /\ \A i \in 1..Len(s) : IsDigit(s[i])

IsHexString(s) == s /= <<>> /\ \A i \in 1..Len(s) : IsHexDigit(s[i])

RECURSIVE HexDigitsOf(_)
HexDigitsOf(n) == IF n < 16 THEN <<HexDigits[n + 1]>> ELSE HexDigitsOf(n \div 16) \o <<HexDigits[(n % 16) + 1]>>

\* hex(n): '0x' and the lower-case digits, a leading '-' for a negative n
hex(n) == IF n < 0 THEN <<"-", "0", "x">> \o HexDigitsOf(-n) ELSE <<"0", "x">> \o HexDigitsOf(n)

\* int(s): a decimal literal with an optional sign, ValueError otherwise
int10(s) ==
    IF IsDecimal(s) THEN Ok(DecVal(s))
    ELSE IF StartsWith(s, <<"-">>) /\ IsDecimal(Tail(s)) THEN Ok(-DecVal(Tail(s)))
    ELSE Raise("ValueError")

\* int(s, base=16) of a two-character slice
int16(s) == IF IsHexString(s) THEN Ok(HexNum(s)) ELSE Raise("ValueError")

\* int(s, base=0): a decimal or a 0x literal with an optional '-'
int0(s) ==
    LET neg  == StartsWith(s, <<"-">>)
        body == IF neg THEN Tail(s) ELSE s
        sign == IF neg THEN -1 ELSE 1
    IN  IF IsDecimal(body) /\ (body[1] /= "0" \/ \A i \in 1..Len(body) : body[i] = "0") THEN Ok(sign * DecVal(body))
        ELSE IF StartsWith(Lower(body), <<"0", "x">>) /\ IsHexString(SubSeq(body, 3, Len(body))) THEN Ok(sign * HexNum(SubSeq(body, 3, Len(body))))
        ELSE Raise("ValueError")

\* the index a slice bound denotes in a sequence of n items
SliceIndex(i, n) == IF i < 0 THEN Max(i + n, 0) ELSE Min(i, n)

\* seq[a:b]
Slice(s, a, b) ==
    LET lo == SliceIndex(a, Len(s))
        hi == SliceIndex(b, Len(s))
    IN  IF hi <= lo THEN <<>> ELSE SubSeq(s, lo + 1, hi)

\* seq[a:b] = data, for a bytearray: the slice is replaced, whatever its size
SliceAssign(s, a, b, data) ==
    LET lo == SliceIndex(a, Len(s))
        hi == Max(SliceIndex(b, Len(s)), lo)
    IN  SubSeq(s, 1, lo) \o data \o SubSeq(s, hi + 1, Len(s))

\* ------------------------------------------------------------------------
\* shlex.shlex (non-POSIX, no escape, no commenters) and ShlexSplit
\* ------------------------------------------------------------------------

IsWordChar(c) == IsDigit(c) \/ In(c, UpperCase) \/ In(c, LowerCase) \/ c = "_"

IsQuote(c) == c = "\""

\* the length of the token that starts s: a run of word characters (quotes
\* met inside a word stay in it), a quoted string with its quotes, or one
\* character of punctuation
TokenLen(s) ==
    IF IsWordChar(s[1])
    THEN IF \A i \in 1..Len(s) : IsWordChar(s[i]) \/ IsQuote(s[i]) THEN Len(s)
         ELSE (CHOOSE i \in 1..Len(s) : ~(IsWordChar(s[i]) \/ IsQuote(s[i])) /\ \A j \in 1..(i - 1) : IsWordChar(s[j]) \/ IsQuote(s[j])) - 1
    ELSE IF IsQuote(s[1])
    THEN IF \E i \in 2..Len(s) : IsQuote(s[i])
         THEN CHOOSE i \in 2..Len(s) : IsQuote(s[i]) /\ \A j \in 2..(i - 1) : ~IsQuote(s[j])
         ELSE Len(s)
    ELSE 1

RECURSIVE shlex(_)
\* list(shlex.shlex(shstr)): the tokens of shstr
shlex(shstr) ==
    IF shstr = <<>> THEN <<>>
    ELSE <<SubSeq(shstr, 1, TokenLen(shstr))>> \o shlex(SubSeq(shstr, TokenLen(shstr) + 1, Len(shstr)))

RECURSIVE JoinFields(_, _, _)
\* the loop of ShlexSplit: a token that is a splitter opens a new field,
\* any other token is appended to the last field
JoinFields(tokens, splitters, parms) ==
    IF tokens = <<>> THEN parms
    ELSE LET dp == Head(tokens)
         IN  IF Len(dp) = 1 /\ dp[1] \in splitters
             THEN JoinFields(Tail(tokens), splitters, parms \o << <<>> >>)
             ELSE JoinFields(Tail(tokens), splitters, [parms EXCEPT ![Len(parms)] = @ \o dp])

ShlexSplit(shstr, splitters) == JoinFields(shlex(shstr), splitters, << <<>> >>)

\* ------------------------------------------------------------------------
\* The type encoder
\* ------------------------------------------------------------------------

\* sys.byteorder of the host
byteorder == "little"

\* `if blen%2:` of LengthAdjust
AdjustOdd(bstr, blen) ==
    IF blen % 2 = 1 THEN [bstr |-> <<"0">> \o bstr, blen |-> blen + 1]
    ELSE [bstr |-> bstr, blen |-> blen]

\* `if blen > len(bstr):` of LengthAdjust
AdjustPad(adj) ==
    IF adj.blen > Len(adj.bstr) THEN [bstr |-> Repeat("0", adj.blen - Len(adj.bstr)) \o adj.bstr, blen |-> adj.blen]
    ELSE adj

LengthAdjust(bstr, width) == AdjustPad(AdjustOdd(bstr, IF width /= 0 THEN width * 2 ELSE Len(bstr)))

\* [bstr[b*2:(b+1)*2] for b in range(int(blen/2))], adj the result of LengthAdjust
BytePairs(adj) == [b \in 1..(adj.blen \div 2) |-> Slice(adj.bstr, (b - 1) * 2, b * 2)]

\* bytearray([int(pair, base=0x10) for pair in pairs])
PairsToBytes(pairs) ==
    IF \A b \in 1..Len(pairs) : int16(pairs[b]).ok
    THEN Ok([b \in 1..Len(pairs) |-> int16(pairs[b]).val])
    ELSE Raise("ValueError")

Bs2Ba(bstr, width) == PairsToBytes(BytePairs(LengthAdjust(bstr, width)))

Le2N(bstr, width) == Bs2Ba(Join(Reverse(BytePairs(LengthAdjust(bstr, width)))), 0)

\* LeInt once int(source) is evaluated
LeIntOf(n, width) ==
    IF ~n.ok THEN Raise("ValueError")
    ELSE IF byteorder = "little" THEN Le2N(hex(n.val), width)
    ELSE Bs2Ba(hex(n.val), 0)

LeInt(source, width) == LeIntOf(int10(source), width)

\* the concatenation of the five encoded groups of a GUID
GuidBytes(g1, g2, g3, g4, g5) ==
    IF g1.ok /\ g2.ok /\ g3.ok /\ g4.ok /\ g5.ok
    THEN Ok(g1.val \o g2.val \o g3.val \o g4.val \o g5.val)
    ELSE Raise("Exception")

\* Guid2N once gstr is split at '-'
GuidGroups(gs) ==
    IF Len(gs) /= 5 THEN Raise("Exception")
    ELSE GuidBytes(Le2N(gs[1], 4), Le2N(gs[2], 2), Le2N(gs[3], 2), Bs2Ba(gs[4], 2), Bs2Ba(gs[5], 6))

Guid2N(gstr) == GuidGroups(Split(gstr, "-"))

\* ------------------------------------------------------------------------
\* The action compiler
\* ------------------------------------------------------------------------

OtherStr == [t |-> "str", v |-> 1]

\* eval(evalstr, {}, {}) for the expressions of the model: an integer
\* literal evaluates to its value, a bare name raises NameError, and '+'
\* (like any other text that is no expression) is a SyntaxError, for which
\* SafeEval returns the text itself
SafeEval(evalstr) ==
    IF IsDecimal(evalstr) /\ (evalstr[1] /= "0" \/ \A i \in 1..Len(evalstr) : evalstr[i] = "0") THEN Ok(IntV(DecVal(evalstr)))
    ELSE IF StartsWith(evalstr, <<"-">>) /\ IsDecimal(Tail(evalstr)) THEN Ok(IntV(-DecVal(Tail(evalstr))))
    ELSE IF ~IsDigit(evalstr[1]) /\ \A i \in 1..Len(evalstr) : IsWordChar(evalstr[i]) THEN Raise("NameError")
    ELSE IF evalstr = <<"+">> THEN Ok(Plus)
    ELSE Ok(OtherStr)

S_overwrite == <<"o", "v", "e", "r", "w", "r", "i", "t", "e">>

S_copy == <<"c", "o", "p", "y">>

S_copyover == <<"c", "o", "p", "y", "o", "v", "e", "r">>

Int8Tags == {<<"i", "8">>, <<"i", "n", "t", "8">>, <<"i", "n", "t", "e", "g", "e", "r", "8">>}

Int16Tags == {<<"i", "1", "6">>, <<"i", "n", "t", "1", "6">>, <<"i", "n", "t", "e", "g", "e", "r", "1", "6">>}

Int32Tags == {<<"i", "3", "2">>, <<"i", "n", "t", "3", "2">>, <<"i", "n", "t", "e", "g", "e", "r", "3", "2">>}

Int64Tags == {<<"i", "3", "2">>, <<"i", "n", "t", "6", "4">>, <<"i", "n", "t", "e", "g", "e", "r", "6", "4">>}

Int128Tags == {<<"i", "1", "2", "8">>, <<"i", "n", "t", "1", "2", "8">>, <<"i", "n", "t", "e", "g", "e", "r", "1", "2", "8">>}

BytesTags == {<<"b">>, <<"b", "y", "t", "e", "s">>}

GuidTags == {<<"g">>, <<"g", "u", "i", "d">>}

StringTags == {<<"s">>, <<"s", "t", "r", "i", "n", "g">>}

FromTags == {<<"f", "r", "o", "m">>}

\* strx of EditorAction.__init__; source_data is self.source_data
strx(data, source_data) ==
    IF StartsWith(data, <<"\"">>) /\ EndsWith(source_data, <<"\"">>)
    THEN Encode(Slice(data, 1, -1))
    ELSE Encode(data)

\* intx of EditorAction.__init__; data_data is the variable of the enclosing scope
intx(data, data_data, width) ==
    IF StartsWith(data_data, <<"0", "x">>) THEN Le2N(Slice(data, 2, Len(data)), width)
    ELSE LeInt(data, width)

\* the dispatch on data_x = self.source_data.lower().split('='): the
\* payload, or <<>> where the code leaves hexdata None
Dispatch(source_data, data_x) ==
    IF Len(data_x) = 1 THEN Ok(strx(source_data, source_data))
    ELSE IF Len(data_x) /= 2 THEN Ok(<<>>)
    ELSE IF data_x[1] \in Int8Tags THEN intx(data_x[2], data_x[2], 1)
    ELSE IF data_x[1] \in Int16Tags THEN intx(data_x[2], data_x[2], 2)
    ELSE IF data_x[1] \in Int32Tags THEN intx(data_x[2], data_x[2], 4)
    ELSE IF data_x[1] \in Int64Tags THEN intx(data_x[2], data_x[2], 8)
    ELSE IF data_x[1] \in Int128Tags THEN intx(data_x[2], data_x[2], 16)
    ELSE IF data_x[1] \in BytesTags
         THEN IF StartsWith(data_x[2], <<"0", "x">>) THEN Bs2Ba(Slice(data_x[2], 2, Len(data_x[2])), 0) ELSE Ok(<<>>)
    ELSE IF data_x[1] \in GuidTags THEN Guid2N(data_x[2])
    ELSE IF data_x[1] \in StringTags THEN Ok(strx(data_x[2], source_data))
    ELSE IF data_x[1] \in FromTags
         THEN IF int0(data_x[2]).ok THEN Ok(strx(data_x[2], source_data)) ELSE Raise("ValueError")
    ELSE Ok(<<>>)

\* self.hexdata after the dispatch
Payload(source_data) == Dispatch(source_data, Split(Lower(source_data), "="))

\* self.from_offset after the dispatch on data_x
FromOffsetOf(data_x) ==
    IF Len(data_x) = 2 /\ data_x[1] \in FromTags /\ int0(data_x[2]).ok
    THEN IntV(int0(data_x[2]).val)
    ELSE None

FromOffset(source_data) == FromOffsetOf(Split(Lower(source_data), "="))

\* the end of __init__: the check of hexdata, the padding to an explicit
\* length and the default of the length
Finish(target_offset, source_data, length, operation, payload) ==
    IF ~payload.ok THEN Raise(payload.err)
    ELSE IF payload.val = <<>> THEN Raise("Exception")
    ELSE Ok([target_offset |-> target_offset,
             source_data   |-> source_data,
             length        |-> IF length = None THEN IntV(Len(payload.val)) ELSE length,
             operation     |-> operation,
             hexdata       |-> IF IsInt(length) /\ length.v > Len(payload.val)
                               THEN payload.val \o Zeros(length.v - Len(payload.val))
                               ELSE payload.val,
             from_offset   |-> FromOffset(source_data)])

\* __init__ once the fields are assigned: an exception of SafeEval leaves
\* __init__, an empty source is an error
Construct(offset, source_data, length, operation) ==
    IF ~offset.ok THEN Raise(offset.err)
    ELSE IF ~length.ok THEN Raise(length.err)
    ELSE IF source_data = <<>> THEN Raise("Exception")
    ELSE Finish(offset.val, source_data, length.val, operation, Payload(source_data))

\* the assignments of the fields eds; a missing field (IndexError) keeps
\* the default
Fields(eds) ==
    Construct(IF eds[1] /= <<>> THEN SafeEval(eds[1]) ELSE Ok(None),
              IF Len(eds) >= 2 THEN eds[2] ELSE <<>>,
              IF Len(eds) >= 3 /\ eds[3] /= <<>> THEN SafeEval(eds[3]) ELSE Ok(None),
              IF Len(eds) >= 4 THEN eds[4] ELSE S_overwrite)

\* EditorAction(edstr): the compiled action, or the exception of __init__
EditorAction(edstr) == Fields(ShlexSplit(edstr, {":"}))

\* ------------------------------------------------------------------------
\* The buffer editor
\* ------------------------------------------------------------------------

\* what a method of Editor leaves behind: the exception it raised, if any,
\* the action (edit rewrites its target_offset), the buffer and the flag
Outcome(ok, err, action, content, changed) ==
    [ok |-> ok, err |-> err, action |-> action, content |-> content, changed |-> changed]

\* x in {None, '+'}
IsChained(x) == x = None \/ x = Plus

\* overwrite without the clipping of line 296: dlen is the whole length
Editor_overwrite_NoClip(content, changed, action) ==
    IF ~IsInt(action.target_offset) \/ ~IsInt(action.length)
    THEN Outcome(FALSE, "TypeError", action, content, changed)
    ELSE LET dlen == action.length.v
         IN  IF dlen < 1 THEN Outcome(TRUE, "", action, content, changed)
             ELSE Outcome(TRUE, "", action,
                          SliceAssign(content, action.target_offset.v, action.target_offset.v + dlen, Slice(action.hexdata, 0, dlen)),
                          TRUE)

Editor_overwrite(content, changed, action) ==
    IF ~IsInt(action.target_offset) \/ ~IsInt(action.length)
    THEN Outcome(FALSE, "TypeError", action, content, changed)
    ELSE LET dlen == Min(action.length.v, Len(content) - action.target_offset.v)
         IN  IF dlen < 1 THEN Outcome(TRUE, "", action, content, changed)
             ELSE Outcome(TRUE, "", action,
                          SliceAssign(content, action.target_offset.v, action.target_offset.v + dlen, Slice(action.hexdata, 0, dlen)),
                          TRUE)

Editor_copyover(content, changed, action) ==
    IF action.from_offset = None THEN Outcome(TRUE, "", action, content, changed)
    ELSE IF ~IsInt(action.length) THEN Outcome(FALSE, "TypeError", action, content, changed)
    ELSE LET data == Slice(content, action.from_offset.v, action.from_offset.v + action.length.v)
         IN  IF Len(data) < 1 THEN Outcome(TRUE, "", action, content, changed)
             ELSE IF ~IsInt(action.target_offset) THEN Outcome(FALSE, "TypeError", action, content, changed)
             ELSE Outcome(TRUE, "", action,
                          SliceAssign(content, action.target_offset.v, action.target_offset.v + Len(data), data),
                          TRUE)

\* the resolution without line 319: the offset of the previous action, its
\* length not added
ResolveOffset_NoLength(action, prev) ==
    IF IsChained(action.target_offset) /\ prev /= <<>>
    THEN IF IsChained(prev[1].target_offset)
         THEN [ok |-> FALSE, err |-> "Exception", action |-> [action EXCEPT !.target_offset = prev[1].target_offset]]
         ELSE [ok |-> TRUE, err |-> "", action |-> [action EXCEPT !.target_offset = prev[1].target_offset]]
    ELSE [ok |-> TRUE, err |-> "", action |-> action]

\* the first statement of edit: the target offset of a chained action;
\* prev is self.PreviousAction, <<>> for None
ResolveOffset(action, prev) ==
    IF IsChained(action.target_offset) /\ prev /= <<>>
    THEN IF IsChained(prev[1].target_offset)
         THEN [ok |-> FALSE, err |-> "Exception", action |-> [action EXCEPT !.target_offset = prev[1].target_offset]]
         ELSE IF ~IsInt(prev[1].target_offset) \/ ~IsInt(prev[1].length)
         THEN [ok |-> FALSE, err |-> "TypeError", action |-> [action EXCEPT !.target_offset = prev[1].target_offset]]
         ELSE [ok |-> TRUE, err |-> "", action |-> [action EXCEPT !.target_offset = IntV(prev[1].target_offset.v + prev[1].length.v)]]
    ELSE [ok |-> TRUE, err |-> "", action |-> action]

Editor_edit(content, changed, prev, action) ==
    LET resolved == ResolveOffset(action, prev)
    IN  IF ~resolved.ok THEN Outcome(FALSE, resolved.err, resolved.action, content, changed)
        ELSE IF resolved.action.operation = S_overwrite THEN Editor_overwrite(content, changed, resolved.action)
        ELSE IF resolved.action.operation \in {S_copy, S_copyover} THEN Editor_copyover(content, changed, resolved.action)
        ELSE Outcome(TRUE, "", resolved.action, content, changed)

\* ------------------------------------------------------------------------
\* The session: CommandArgument.__init__, Editor.__init__, the loop of
\* edit calls and commit
\* ------------------------------------------------------------------------

\* the --edit arguments the batches are drawn from
ActionStrings == {
    <<"0", ":", "A", "B", ":", "2">>,
    <<"+", ":", "C", "D">>,
    <<":", "C", "D">>,
    <<"0", ":", "w", "x">>,
    <<"2", ":", "A", "B", "C", "D">>,
    <<"-", "1", ":", "A", "B">>,
    <<"2", ":", "f", "r", "o", "m", "=", "0", ":", "2", ":", "c", "o", "p", "y">>,
    <<"5", ":", "f", "r", "o", "m", "=", "0", ":", "4", ":", "c", "o", "p", "y">>,
    <<"+", ":", "f", "r", "o", "m", "=", "9", ":", "2", ":", "c", "o", "p", "y">>,
    <<"+", ":", "A", "B", ":", ":", "c", "o", "p", "y">>,
    <<"+", ":", "f", "r", "o", "m", "=", "0", ":", "1", ":", "c", "o", "p", "y">>,
    <<"0", ":", "A", "B", ":", "2", ":", "C", "O", "P", "Y">>,
    <<"+", ":", "A", "B", ":", "2", ":", "z", "a", "p">>,
    <<"0", ":", "i", "8", "=", "5">>,
    <<"0", ":", "i", "1", "6", "=", "3", "0", "0">>,
    <<"0", ":">>,
    <<"A", "B", ":", "C", "D">>
}

\* the i-th byte of the input file: "wxyz" repeated
FileByte(i) == 119 + ((i - 1) % 4)

Batches == UNION {[1..n -> ActionStrings] : n \in 1..MaxBatch}

InputFiles == {[i \in 1..n |-> FileByte(i)] : n \in 0..MaxFileLen}

VARIABLES argv_edit, infile, outfile, edits, content, changed, PreviousAction, pc, idx, error

vars == <<argv_edit, infile, outfile, edits, content, changed, PreviousAction, pc, idx, error>>

\* EditorAction(ed) for every action string a batch can hold
CompiledActions == [edstr \in ActionStrings |-> EditorAction(edstr)]

\* argv_edit is args.edit, infile the bytes of the input file, outfile the
\* sequence of the buffers written to the output file; pc is the place of
\* the script: "compile" in the loop of CommandArgument.__init__, "open"
\* before Editor(...), "edit" in the loop of edit calls, "done" after
\* commit, "abort" after an uncaught exception, whose name is in error
Init ==
    /\ argv_edit \in Batches
    /\ infile \in InputFiles
    /\ outfile = <<>>
    /\ edits = <<>>
    /\ content = <<>>
    /\ changed = FALSE
    /\ PreviousAction = <<>>
    /\ pc = "compile"
    /\ idx = 1
    /\ error = ""

\* the loop without the `raise` of line 264: an action that does not compile
\* is left out and the loop goes on
Compile_Swallow ==
    /\ pc = "compile"
    /\ LET compiled == CompiledActions[argv_edit[idx]]
       IN  /\ edits' = IF compiled.ok THEN Append(edits, compiled.val) ELSE edits
           /\ idx' = IF idx < Len(argv_edit) THEN idx + 1 ELSE 1
           /\ pc' = IF idx < Len(argv_edit) THEN "compile" ELSE "open"
           /\ error' = error
    /\ UNCHANGED <<argv_edit, infile, outfile, content, changed, PreviousAction>>

\* one round of `for ed in args.edit`: the exception of EditorAction is
\* raised again and ends the script
Compile ==
    /\ pc = "compile"
    /\ LET compiled == CompiledActions[argv_edit[idx]]
       IN  IF compiled.ok
           THEN /\ edits' = Append(edits, compiled.val)
                /\ idx' = IF idx < Len(argv_edit) THEN idx + 1 ELSE 1
                /\ pc' = IF idx < Len(argv_edit) THEN "compile" ELSE "open"
                /\ error' = error
           ELSE /\ pc' = "abort"
                /\ error' = compiled.err
                /\ UNCHANGED <<edits, idx>>
    /\ UNCHANGED <<argv_edit, infile, outfile, content, changed, PreviousAction>>

\* ed = Editor(input_file, output_file)
Editor_init ==
    /\ pc = "open"
    /\ content' = infile
    /\ changed' = FALSE
    /\ PreviousAction' = <<>>
    /\ pc' = "edit"
    /\ UNCHANGED <<argv_edit, infile, outfile, edits, idx, error>>

\* one round of `for ar in arg.edits: ed.edit(ar)`
Edit ==
    /\ pc = "edit"
    /\ idx <= Len(edits)
    /\ LET out == Editor_edit(content, changed, PreviousAction, edits[idx])
       IN  /\ edits' = [edits EXCEPT ![idx] = out.action]
           /\ content' = out.content
           /\ changed' = out.changed
           /\ IF out.ok
              THEN /\ PreviousAction' = <<out.action>>
                   /\ idx' = idx + 1
                   /\ UNCHANGED <<pc, error>>
              ELSE /\ pc' = "abort"
                   /\ error' = out.err
                   /\ UNCHANGED <<PreviousAction, idx>>
    /\ UNCHANGED <<argv_edit, infile, outfile>>

\* commit without the test of line 334: the buffer is written in any case
Commit_Always ==
    /\ pc = "edit"
    /\ idx > Len(edits)
    /\ outfile' = Append(outfile, content)
    /\ pc' = "done"
    /\ UNCHANGED <<argv_edit, infile, edits, content, changed, PreviousAction, idx, error>>

\* ed.commit()
Commit ==
    /\ pc = "edit"
    /\ idx > Len(edits)
    /\ outfile' = IF changed THEN Append(outfile, content) ELSE outfile
    /\ pc' = "done"
    /\ UNCHANGED <<argv_edit, infile, edits, content, changed, PreviousAction, idx, error>>

Next == Compile \/ Editor_init \/ Edit \/ Commit

Spec == Init /\ [][Next]_vars

\* ------------------------------------------------------------------------
\* Properties
\* ------------------------------------------------------------------------

\* an edit call is about to run on edits[idx]
AtEdit == pc = "edit" /\ idx <= Len(edits)

\* the target offset edit has given to edits[idx] is an integer >= 0
ResolvedNonNegative(action) == IsInt(action.target_offset) /\ action.target_offset.v >= 0

\* C1: an action whose target offset is '+' or absent, given to edit after a
\* previous action with an absolute offset, is applied exactly as the same
\* action with the offset previous.target_offset + previous.length: it gets
\* that offset, changes the buffer and the flag as the absolute action
\* would, raises nothing and becomes the previous action; this whether or
\* not the previous action wrote a byte.
C1_OffsetChaining ==
    [][(AtEdit /\ IsChained(edits[idx].target_offset) /\ PreviousAction /= <<>> /\ IsInt(PreviousAction[1].target_offset))
       => LET prev     == PreviousAction[1]
              absolute == [edits[idx] EXCEPT !.target_offset = IntV(prev.target_offset.v + prev.length.v)]
              out      == Editor_edit(content, changed, <<>>, absolute)
          IN  /\ edits'[idx] = absolute
              /\ PreviousAction' = <<absolute>>
              /\ content' = out.content
              /\ changed' = out.changed
              /\ pc' = "edit"
              /\ idx' = idx + 1]_vars

\* C1 witness: (0:"AB":2) then (+:"CD") on a file of four bytes or more has
\* written "CD" at offset 2
C1_Witness ==
    /\ argv_edit = <<<<"0", ":", "A", "B", ":", "2">>, <<"+", ":", "C", "D">>>>
    /\ pc = "edit"
    /\ idx = 3
    /\ Len(infile) >= 4
    /\ PreviousAction = <<edits[2]>>
    /\ edits[2].target_offset = IntV(2)
    /\ SubSeq(content, 1, 4) = <<65, 66, 67, 68>>

\* C2: an edit call records a modification (sets the changed flag) only if
\* it has changed a byte of the buffer.
C2_ChangeDetection ==
    [][(AtEdit /\ changed' /= changed) => content' /= content]_vars

\* C3: the output file is written by commit alone, at most once, with the
\* whole buffer, and only if a change has been recorded.
C3_Commit ==
    /\ pc /= "done" => outfile = <<>>
    /\ pc = "done" => outfile = IF changed THEN <<content>> ELSE <<>>

\* C3 witness: a session with a recorded change has committed its buffer
C3_Witness == pc = "done" /\ changed /\ outfile = <<content>> /\ content /= infile

\* C4: an overwrite with the resolved offset o >= 0 and the length L on a
\* buffer of n bytes raises nothing, keeps the size of the buffer, puts the
\* first d = min(L, n - o) bytes of the payload at o..o+d-1 and leaves every
\* other byte alone; with d < 1 it changes neither the buffer nor the flag.
C4_OverwriteClipping ==
    [][(AtEdit /\ edits[idx].operation = S_overwrite /\ ResolvedNonNegative(edits'[idx]))
       => LET action == edits'[idx]
              o      == action.target_offset.v
              n      == Len(content)
              d      == Min(action.length.v, n - o)
          IN  /\ pc' = "edit"
              /\ idx' = idx + 1
              /\ Len(content') = n
              /\ \A i \in 1..n : content'[i] = IF i > o /\ i <= o + d THEN action.hexdata[i - o] ELSE content[i]
              /\ d >= 1 => changed'
              /\ d < 1 => content' = content /\ changed' = changed]_vars

\* C4 witness: an overwrite that runs past the end of the buffer has been
\* applied, and its clipped payload fills the tail of the buffer
C4_Witness ==
    /\ PreviousAction /= <<>>
    /\ PreviousAction[1].operation = S_overwrite
    /\ ResolvedNonNegative(PreviousAction[1])
    /\ LET o == PreviousAction[1].target_offset.v
       IN  /\ o < Len(content)
           /\ o + PreviousAction[1].length.v > Len(content)
           /\ SubSeq(content, o + 1, Len(content)) = SubSeq(PreviousAction[1].hexdata, 1, Len(content) - o)
           /\ Len(content) = Len(infile)
           /\ content /= infile

\* C5: a copy with the source offset s >= 0, the length L and the resolved
\* target offset o >= 0 puts the k = min(L, n - s) bytes that the current
\* buffer holds from s at o..o+k-1; with no byte to read it is a no-op.
C5_InternalCopy ==
    [][(AtEdit /\ edits[idx].operation = S_copy /\ IsInt(edits[idx].from_offset) /\ edits[idx].from_offset.v >= 0 /\ ResolvedNonNegative(edits'[idx]))
       => LET action == edits'[idx]
              o      == action.target_offset.v
              s      == action.from_offset.v
              k      == Min(action.length.v, Max(Len(content) - s, 0))
          IN  /\ pc' = "edit"
              /\ k < 1 => content' = content /\ changed' = changed
              /\ k >= 1 => /\ Len(content') >= o + k
                           /\ \A j \in 1..k : content'[o + j] = content[s + j]]_vars

\* an action string of the batch does not compile
CompileError == \E i \in 1..Len(argv_edit) : ~CompiledActions[argv_edit[i]].ok

\* C6: no action is applied before every action string of the batch has
\* been compiled, and a batch with an action string that does not compile
\* never opens the file, mutates a buffer or writes the output file.
C6_BatchAtomicity ==
    /\ pc \in {"open", "edit", "done"} => Len(edits) = Len(argv_edit)
    /\ CompileError => /\ pc \in {"compile", "abort"}
                       /\ content = <<>>
                       /\ changed = FALSE
                       /\ PreviousAction = <<>>
                       /\ outfile = <<>>
    /\ Len(edits) < Len(argv_edit) => content = <<>> /\ PreviousAction = <<>> /\ outfile = <<>>

\* C6 witness: the second action string of a batch failed to compile after
\* the first had compiled; the session is over and nothing was touched
C6_Witness ==
    /\ pc = "abort"
    /\ Len(edits) = 1
    /\ Len(argv_edit) = 2
    /\ ~CompiledActions[argv_edit[2]].ok
    /\ content = <<>>
    /\ outfile = <<>>

\* C7: the first edit call of an Editor, given an overwrite or a copy whose
\* target offset is '+' or absent, raises an error, leaves the buffer alone
\* and does not make the action the previous action.
C7_UnresolvedChainingFatal ==
    [][(AtEdit /\ PreviousAction = <<>> /\ IsChained(edits[idx].target_offset) /\ edits[idx].operation \in {S_overwrite, S_copy})
       => /\ pc' = "abort"
          /\ error' /= ""
          /\ content' = content
          /\ PreviousAction' = <<>>]_vars

\* the byte width the spec gives to an integer type tag
WidthOf(data_type) ==
    IF data_type \in {<<"i", "8">>, <<"i", "n", "t", "8">>, <<"i", "n", "t", "e", "g", "e", "r", "8">>} THEN 1
    ELSE IF data_type \in {<<"i", "1", "6">>, <<"i", "n", "t", "1", "6">>, <<"i", "n", "t", "e", "g", "e", "r", "1", "6">>} THEN 2
    ELSE IF data_type \in {<<"i", "3", "2">>, <<"i", "n", "t", "3", "2">>, <<"i", "n", "t", "e", "g", "e", "r", "3", "2">>} THEN 4
    ELSE IF data_type \in {<<"i", "6", "4">>, <<"i", "n", "t", "6", "4">>, <<"i", "n", "t", "e", "g", "e", "r", "6", "4">>} THEN 8
    ELSE IF data_type \in {<<"i", "1", "2", "8">>, <<"i", "n", "t", "1", "2", "8">>, <<"i", "n", "t", "e", "g", "e", "r", "1", "2", "8">>} THEN 16
    ELSE 0

RECURSIVE LittleEndianValue(_)
\* the unsigned little-endian integer a byte sequence stands for
LittleEndianValue(bytes) == IF bytes = <<>> THEN 0 ELSE Head(bytes) + 256 * LittleEndianValue(Tail(bytes))

\* the source field of an action string, split at '='
SourceOf(edstr) == Split(Lower(ShlexSplit(edstr, {":"})[2]), "=")

\* the action string is offset:iN=<n> with a decimal n that fits the width
IsDecimalInteger(edstr) ==
    /\ Len(ShlexSplit(edstr, {":"})) = 2
    /\ Len(SourceOf(edstr)) = 2
    /\ WidthOf(SourceOf(edstr)[1]) > 0
    /\ IsDecimal(SourceOf(edstr)[2])
    /\ (WidthOf(SourceOf(edstr)[1]) < 4 => DecVal(SourceOf(edstr)[2]) < 256 ^ WidthOf(SourceOf(edstr)[1]))

\* the action strings of the batches that are decimal integers
DecimalIntegers == {edstr \in ActionStrings : IsDecimalInteger(edstr)}

\* C8: every action string of the form iN=<n>, n a decimal integer that
\* fits the width w of the type, compiles, and its payload is w bytes that
\* read as a little-endian integer give n (checked for every action string
\* the compile loop has reached).
C8_DecimalRoundTrip ==
    \A i \in 1..Len(argv_edit) :
        (argv_edit[i] \in DecimalIntegers /\ (i <= Len(edits) \/ (pc = "abort" /\ i = Len(edits) + 1)))
        => /\ i <= Len(edits)
           /\ Len(edits[i].hexdata) = WidthOf(SourceOf(argv_edit[i])[1])
           /\ LittleEndianValue(edits[i].hexdata) = DecVal(SourceOf(argv_edit[i])[2])

\* C9: every compiled action has an operation that is, in lower case,
\* 'overwrite' or 'copy'; no other action reaches edit or becomes the
\* previous action.
C9_OperationValidated ==
    /\ \A i \in 1..Len(edits) : Lower(edits[i].operation) \in {S_overwrite, S_copy}
    /\ PreviousAction /= <<>> => Lower(PreviousAction[1].operation) \in {S_overwrite, S_copy}

\* C10: as long as every action applied so far had a resolved target
\* offset >= 0, the buffer has the length of the input file.
C10_BufferSize ==
    (pc \in {"edit", "done"} /\ \A i \in 1..(idx - 1) : ResolvedNonNegative(edits[i]))
    => Len(content) = Len(infile)

====
